---------------------------- MODULE Spec2Model ----------------------------
(***************************************************************************)
(* A model of connect-cosmosdb's CosmosStore (src/src/index.ts): the       *)
(* process-wide singleton and its configuration, the provisioning done by  *)
(* initializeStore, the TTL resolver and the session operations, run       *)
(* against a document database that holds containers of items.             *)
(*                                                                         *)
(* A JavaScript value that may be undefined is modelled either by the      *)
(* string "undefined" (names, flags) or by a set with at most one element  *)
(* (optional fields of a session or of a stored item).                     *)
(***************************************************************************)
EXTENDS Integers, FiniteSets, Sequences, TLC

VARIABLES
    store,       \* CosmosStore._store: 0 is null, i > 0 is the i-th instance
    options,     \* CosmosStore.options
    nInst,       \* number of instances constructed so far
    built,       \* instances constructed since the last reset()
    database,    \* this.database of every instance
    container,   \* this.container of every instance
    dbExists,    \* the backing store: does the database exist
    containers,  \* the backing store: the containers of the database
    calls,       \* the initializeStore call of every caller
    last,        \* the static call made by the last step, and what it did
    now,         \* Date.now(), in milliseconds
    ops          \* the session operation of every caller

vars == <<store, options, nInst, built, database, container, dbExists,
          containers, calls, last, now, ops>>

-----------------------------------------------------------------------------
(* Bounds of the model. *)

\* Instances that may be constructed in one behaviour.
MaxInst == 2

\* The session operations are run at one of the times 0 .. MaxTicks half
\* seconds.
MaxTicks == 2

\* A record's life is followed for this many half seconds.
MaxClock == 3

Callers == {"c1", "c2"}
Instances == 1..MaxInst
Undefined == "undefined"
Ids == {"a", "b"}

-----------------------------------------------------------------------------
(* Program constants. *)

DEFAULT_CONTAINER_NAME == "sessions"
DEFAULT_TTL == 86400
MsPerSecond == 1000

ContainerNames == {DEFAULT_CONTAINER_NAME, "custom"}

-----------------------------------------------------------------------------
(* CosmosStoreOptions.  ttl is undefined, a number, or a function; the      *)
(* function () => n is written Fn(n).                                       *)

TtlUndefined == [kind |-> "undefined", val |-> 0]
Num(n) == [kind |-> "number", val |-> n]
Fn(n) == [kind |-> "function", val |-> n]

\* CosmosStore.options = {}
EmptyOptions ==
    [cosmosClient |-> Undefined, databaseName |-> Undefined,
     containerName |-> Undefined, disableTouch |-> Undefined,
     ttl |-> TtlUndefined]

\* JavaScript truthiness of a name or flag and of a ttl option.
Truthy(v) == v \notin {Undefined, "false", ""}
TtlTruthy(t) == t.kind = "function" \/ (t.kind = "number" /\ t.val # 0)

\* The options values with which initializeStore is called.
OptionsInputs ==
    { [cosmosClient |-> "client", databaseName |-> "db", containerName |-> Undefined,
       disableTouch |-> Undefined, ttl |-> TtlUndefined],
      [cosmosClient |-> "client", databaseName |-> "db", containerName |-> "custom",
       disableTouch |-> "true", ttl |-> Num(5)],
      [cosmosClient |-> "client", databaseName |-> "db", containerName |-> Undefined,
       disableTouch |-> "false", ttl |-> Fn(5)],
      [cosmosClient |-> Undefined, databaseName |-> "db", containerName |-> "custom",
       disableTouch |-> "true", ttl |-> Num(5)],
      [cosmosClient |-> "client", databaseName |-> Undefined, containerName |-> "custom",
       disableTouch |-> "true", ttl |-> Num(5)] }

\* updateOptions: the configuration captured from an options value.
UpdateOptions(o) ==
    [cosmosClient |-> o.cosmosClient,
     containerName |-> IF Truthy(o.containerName) THEN o.containerName
                       ELSE DEFAULT_CONTAINER_NAME,
     databaseName |-> o.databaseName,
     disableTouch |-> IF Truthy(o.disableTouch) THEN o.disableTouch ELSE "false",
     ttl |-> IF TtlTruthy(o.ttl) THEN o.ttl ELSE Num(DEFAULT_TTL)]

\* A validation that forgets the database name.
ValidationErrorClientOnly(o) ==
    IF ~Truthy(o.cosmosClient) THEN "Cosmos DB Client is required." ELSE ""

\* initializeStore's validation: "" when the options pass, else the error.
ValidationError(o) ==
    IF ~Truthy(o.cosmosClient) THEN "Cosmos DB Client is required."
    ELSE IF ~Truthy(o.databaseName) THEN "Database name is required"
    ELSE ""

\* The constructor's guards: "" when construction succeeds, else the error.
ConstructorError(st, opts) ==
    IF st # 0 THEN "Cosmos Store has already been initialized."
    ELSE IF ~Truthy(opts.cosmosClient) THEN "Cannot initialize Cosmos Store."
    ELSE ""

\* An initializeStore that never finds a singleton to return.
HasStoreNever(st) == FALSE

\* initializeStore, line 60: is there a singleton to return.
HasStore(st) == st # 0

\* A construction whose result is not kept as the singleton.
AssignStoreForgotten(st, inst) == st

\* initializeStore, line 65: the singleton reference after construction.
AssignStore(st, inst) == inst

\* A reset() that keeps the singleton, and one that keeps the configuration.
ResetStoreKept(st) == st
ResetOptionsKept(o) == o

\* reset(): the singleton reference it leaves, ...
ResetStore(st) == 0

\* ... and the configuration it leaves.
ResetOptions(o) == EmptyOptions


-----------------------------------------------------------------------------
(* The backing store.  A container exists or not and holds items; an item   *)
(* is keyed by its id field.  ts is the time of the item's last write.      *)

NoContainers == [n \in ContainerNames |-> [exists |-> FALSE, items |-> {}]]

\* An item left in a container by an earlier run of the program.
OldItem == [id |-> "a", expires |-> {}, data |-> "x", ttl |-> {DEFAULT_TTL}, ts |-> 0]

\* The containers the database may hold when the program starts.
InitialContainers ==
    { NoContainers,
      [NoContainers EXCEPT ![DEFAULT_CONTAINER_NAME] =
          [exists |-> TRUE, items |-> {OldItem}]] }

\* The handles of instance i are set.
Usable(i) == i # 0 /\ database[i] # Undefined /\ container[i] # Undefined

\* createContainer(): containers.createIfNotExists({ id: n, ... })
EnsureContainer(cs, n) == [cs EXCEPT ![n].exists = TRUE]

-----------------------------------------------------------------------------
(* The static calls: initializeStore, reset, and direct construction.       *)

IdleCall ==
    [pc |-> "idle", inst |-> 0, cName |-> Undefined, req |-> Undefined,
     ret |-> 0, usable |-> FALSE, stale |-> FALSE, error |-> ""]

NoCall == [op |-> "none", caller |-> "none", opts |-> EmptyOptions,
           outcome |-> "", issued |-> {}]

Event(op, c, o, outcome, issued) ==
    [op |-> op, caller |-> c, opts |-> o, outcome |-> outcome, issued |-> issued]

\* initializeStore(o) up to its first await: validation, the early return of
\* an existing singleton, else updateOptions, construction, and the start of
\* setup(), which reads the configuration and issues ensure-database.
InitializeStore(c, o) ==
    /\ calls[c].pc \in {"idle", "returned", "rejected"}
    /\ LET verr == ValidationError(o)
           opts2 == UpdateOptions(o)
           cerr == ConstructorError(store, opts2)
           inst == nInst + 1
       IN  IF verr # ""
           THEN /\ calls' = [calls EXCEPT ![c] =
                        [IdleCall EXCEPT !.pc = "rejected", !.error = verr]]
                /\ last' = Event("initializeStore", c, o, "validationError", {})
                /\ UNCHANGED <<store, options, nInst, built>>
           ELSE IF HasStore(store)
           THEN /\ calls' = [calls EXCEPT ![c] =
                        [IdleCall EXCEPT !.pc = "returned", !.ret = store,
                                         !.usable = Usable(store)]]
                /\ last' = Event("initializeStore", c, o, "existing", {})
                /\ UNCHANGED <<store, options, nInst, built>>
           ELSE IF cerr # ""
           THEN /\ options' = opts2
                /\ calls' = [calls EXCEPT ![c] =
                        [IdleCall EXCEPT !.pc = "rejected", !.error = cerr]]
                /\ last' = Event("initializeStore", c, o, "constructorError", {})
                /\ UNCHANGED <<store, nInst, built>>
           ELSE /\ nInst < MaxInst
                /\ options' = opts2
                /\ store' = AssignStore(store, inst)
                /\ nInst' = inst
                /\ built' = built + 1
                /\ calls' = [calls EXCEPT ![c] =
                        [IdleCall EXCEPT !.pc = "awaitDatabase", !.inst = inst,
                                         !.cName = opts2.containerName]]
                /\ last' = Event("initializeStore", c, o, "provisioning",
                                 {"ensureDatabase"})
    /\ UNCHANGED <<database, container, dbExists, containers, now, ops>>

\* setup(): ensure-database answers.  On success this.database is set and
\* createContainer() issues ensure-container for the container name the
\* configuration holds now; on failure setup() and initializeStore reject.
DatabaseResponse(c) ==
    /\ calls[c].pc = "awaitDatabase"
    /\ \E ok \in BOOLEAN :
         IF ok
         THEN /\ dbExists' = TRUE
              /\ database' = [database EXCEPT ![calls[c].inst] = "db"]
              /\ calls' = [calls EXCEPT ![c].pc = "awaitContainer",
                                        ![c].req = options.containerName]
              /\ last' = Event("setup", c, EmptyOptions, "database", {"ensureContainer"})
         ELSE /\ calls' = [calls EXCEPT ![c].pc = "rejected", ![c].error = "backend"]
              /\ last' = Event("setup", c, EmptyOptions, "failed", {})
              /\ UNCHANGED <<dbExists, database>>
    /\ UNCHANGED <<store, options, nInst, built, container, containers, now, ops>>

\* setup(): ensure-container answers.  On success the container exists and
\* this.container is the handle of the name setup() read at its start.
ContainerResponse(c) ==
    /\ calls[c].pc = "awaitContainer"
    /\ \E ok \in BOOLEAN :
         IF ok /\ calls[c].req \in ContainerNames
         THEN /\ containers' = EnsureContainer(containers, calls[c].req)
              /\ container' = [container EXCEPT ![calls[c].inst] = calls[c].cName]
              /\ calls' = [calls EXCEPT ![c].pc = "setupDone"]
              /\ last' = Event("setup", c, EmptyOptions, "container", {})
         ELSE /\ calls' = [calls EXCEPT ![c].pc = "rejected", ![c].error = "backend"]
              /\ last' = Event("setup", c, EmptyOptions, "failed", {})
              /\ UNCHANGED <<containers, container>>
    /\ UNCHANGED <<store, options, nInst, built, database, dbExists, now, ops>>

\* initializeStore after the await of setup(): return CosmosStore._store.
InitReturn(c) ==
    /\ calls[c].pc = "setupDone"
    /\ calls' = [calls EXCEPT ![c].pc = "returned", ![c].ret = store,
                              ![c].usable = Usable(store)]
    /\ last' = Event("initializeStore.return", c, EmptyOptions, "returned", {})
    /\ UNCHANGED <<store, options, nInst, built, database, container, dbExists,
                   containers, now, ops>>

\* reset().  Calls that began before it are marked stale.
Reset ==
    /\ store' = ResetStore(store)
    /\ options' = ResetOptions(options)
    /\ built' = 0
    /\ calls' = [c \in Callers |->
                    IF calls[c].pc = "idle" THEN calls[c]
                    ELSE [calls[c] EXCEPT !.stale = TRUE]]
    /\ last' = Event("reset", "none", EmptyOptions, "", {})
    /\ UNCHANGED <<nInst, database, container, dbExists, containers, now, ops>>

\* new CosmosStore() outside initializeStore.
Construct ==
    /\ LET cerr == ConstructorError(store, options)
       IN  IF cerr # ""
           THEN /\ last' = Event("construct", "none", EmptyOptions, cerr, {})
                /\ UNCHANGED <<nInst, built>>
           ELSE /\ nInst < MaxInst
                /\ nInst' = nInst + 1
                /\ built' = built + 1
                /\ last' = Event("construct", "none", EmptyOptions, "constructed", {})
    /\ UNCHANGED <<store, options, database, container, dbExists, containers,
                   calls, now, ops>>

-----------------------------------------------------------------------------
(* Sessions and the TTL resolver.                                           *)

\* A session: cookie.expires (a Date, as epoch milliseconds) is optional, and
\* so are fields of the session's own that are named id and ttl.
Session(id, expires, data, ttl) ==
    [id |-> id, expires |-> expires, data |-> data, ttl |-> ttl]

Sessions ==
    { Session({}, {}, "x", {}),
      Session({}, {1000}, "y", {}),
      Session({}, {0}, "x", {}),
      Session({"b"}, {}, "x", {}),
      Session({}, {}, "y", {7}) }

\* Math.ceil(x / m) for m > 0.
CeilDiv(x, m) == -((-x) \div m)

\* getTTL, first tier: the policy is a function, and its value is returned.
IsFunctionPolicy(t) == t.kind = "function"

\* getTTL, second tier: the seconds until cookie.expires.
ExpiresTTL(e, t) == CeilDiv(e - t, MsPerSecond)

\* A resolver that looks at cookie.expires before the policy function.
GetTTLExpiresFirst(opts, s, t) ==
    IF s.expires # {} THEN ExpiresTTL(CHOOSE e \in s.expires : TRUE, t)
    ELSE opts.ttl.val

\* getTTL(session) under configuration opts at time t.
GetTTL(opts, s, t) ==
    IF IsFunctionPolicy(opts.ttl) THEN opts.ttl.val
    ELSE IF s.expires # {} THEN ExpiresTTL(CHOOSE e \in s.expires : TRUE, t)
    ELSE opts.ttl.val

\* set: const sessionItem = { id: sid, ...session }
SessionItem(sid, s) ==
    [id |-> IF s.id # {} THEN CHOOSE x \in s.id : TRUE ELSE sid,
     expires |-> s.expires, data |-> s.data, ttl |-> s.ttl, ts |-> 0]

\* set: { ...sessionItem, ttl: currentTTL }
WithTTL(item, ttl) == [item EXCEPT !.ttl = {ttl}]

\* A set that writes whatever the sign of the TTL is.
SetBranchWrites(ttl) == IF ttl # 0 THEN "upsert" ELSE "create"

\* set: which write a resolved TTL leads to.
SetBranch(ttl) ==
    IF ttl # 0
    THEN IF ttl <= 0 THEN "delete" ELSE "upsert"
    ELSE "create"

-----------------------------------------------------------------------------
(* The backing store's item operations on the items of one container.       *)

\* An item with a ttl field lives ttl seconds from its last write; -1 and
\* no ttl field mean that it never expires (the container's defaultTtl is -1).
Live(d, t) == \A x \in d.ttl : x = -1 \/ t < d.ts + x * MsPerSecond

\* A point read that finds nothing.
PointReadNothing(its, id) == {}

\* container.item(id, id).read(): the item with that id, if there is one.
PointRead(its, id) == {d \in its : d.id = id}

Upsert(its, d, t) == {e \in its : e.id # d.id} \cup {[d EXCEPT !.ts = t]}
Delete(its, id) == {e \in its : e.id # id}

\* The answers of a point delete: done, a failed request, and for an id that
\* is not stored also the client's not-found error.
DeleteOutcomes(its, id) ==
    IF PointRead(its, id) = {} THEN {"ok", "notFound", "error"} ELSE {"ok", "error"}

\* A patch that is applied to every item of the container.
PatchEvery(its, id, ttl, t) == {[e EXCEPT !.ttl = {ttl}, !.ts = t] : e \in its}

\* container.item(id, id).patch([{ op: 'replace', path: '/ttl', value: ttl }])
Patch(its, id, ttl, t) ==
    {e \in its : e.id # id}
    \cup {[e EXCEPT !.ttl = {ttl}, !.ts = t] : e \in PointRead(its, id)}

\* The backing store accepts a ttl that is a positive number or -1.
ValidTTL(ttl) == ttl > 0 \/ ttl = -1

-----------------------------------------------------------------------------
(* The session operations.  A call runs up to its first await, where it has *)
(* issued a backing-store request; the answer to the request runs the rest. *)

\* A callback invocation: its error argument and its result argument.
CbNoArgs == [err |-> "none", docs |-> {}, count |-> {}]
CbError(e) == [err |-> e, docs |-> {}, count |-> {}]
CbDocs(ds) == [err |-> "null", docs |-> ds, count |-> {}]
CbCount(n) == [err |-> "null", docs |-> {}, count |-> {n}]

\* The call of one caller: at is the time at which it completed.
IdleOp ==
    [op |-> "none", pc |-> "idle", inst |-> 0, sid |-> "a",
     sess |-> Session({}, {}, "x", {}), ttl |-> 0, throws |-> FALSE,
     reqs |-> <<>>, name |-> Undefined, failed |-> <<>>, cbs |-> <<>>,
     promise |-> "none", at |-> 0,
     prev |-> [op |-> "none", sid |-> "a", sess |-> Session({}, {}, "x", {}),
               req |-> "none"]]

\* What a call remembers of the caller's previous operation o, when that was
\* a set, a destroy or a clear whose requests succeeded: the operation, its
\* arguments and the first request it made.
Previous(o) ==
    IF o.pc = "done" /\ o.op \in {"set", "destroy", "clear"} /\ o.failed = <<>>
       /\ o.promise = "resolved"
    THEN [op |-> o.op, sid |-> o.sid, sess |-> o.sess, req |-> o.reqs[1]]
    ELSE IdleOp.prev

\* The call of an operation: pending at its first request.
StartOp(c, op, i, sid, s, ttl, thr, req, name) ==
    [IdleOp EXCEPT !.op = op, !.pc = "await", !.inst = i, !.sid = sid,
                   !.sess = s, !.ttl = ttl, !.throws = thr, !.reqs = <<req>>,
                   !.name = name, !.promise = "pending",
                   !.prev = Previous(ops[c])]

\* callback(...) inside the try block: when the callback throws, the catch
\* block invokes it with what it threw, and what that throws rejects.
InvokeInTry(o, cb) ==
    IF o.throws
    THEN [o EXCEPT !.pc = "done", !.cbs = o.cbs \o <<cb, CbError("thrown")>>,
                   !.promise = "rejected", !.at = now]
    ELSE [o EXCEPT !.pc = "done", !.cbs = Append(o.cbs, cb),
                   !.promise = "resolved", !.at = now]

\* callback(error) inside the catch block.
InvokeInCatch(o, cb) ==
    [o EXCEPT !.pc = "done", !.cbs = Append(o.cbs, cb), !.at = now,
              !.promise = IF o.throws THEN "rejected" ELSE "resolved"]

\* The operation ends without invoking its callback.
Finish(o) == [o EXCEPT !.pc = "done", !.promise = "resolved", !.at = now]

\* The request failed: it is recorded, and the catch block runs.
Failed(o) == [o EXCEPT !.failed = Append(o.failed, o.reqs[Len(o.reqs)])]

\* The request reached the backing store, which refused it: the id is not
\* stored, or the value is not one the store accepts.
Refused(o) == [o EXCEPT !.failed = Append(o.failed, "refused")]

CanCall(c, i) == ops[c].pc \in {"idle", "done"} /\ i \in Instances /\ Usable(i)

\* The items of the container that instance i holds a handle of.
ItemsOf(i) == containers[container[i]].items
Reachable(i) == dbExists /\ containers[container[i]].exists

LifeVars == <<store, options, nInst, built, database, container, dbExists,
              calls, last>>

\* get(sid, callback)
Get(c, i, sid, thr) ==
    /\ CanCall(c, i)
    /\ ops' = [ops EXCEPT ![c] =
                  StartOp(c, "get", i, sid, IdleOp.sess, 0, thr, "read", Undefined)]
    /\ UNCHANGED <<LifeVars, containers, now>>

GetResponse(c) ==
    /\ ops[c].op = "get" /\ ops[c].pc = "await"
    /\ \E ok \in BOOLEAN :
         LET o == ops[c] IN
         IF ok /\ Reachable(o.inst)
         THEN ops' = [ops EXCEPT ![c] =
                         InvokeInTry(o, CbDocs(PointRead(ItemsOf(o.inst), o.sid)))]
         ELSE ops' = [ops EXCEPT ![c] = InvokeInCatch(Failed(o), CbError("backend"))]
    /\ UNCHANGED <<LifeVars, containers, now>>

\* set(sid, session, callback): the TTL is resolved and the write chosen;
\* on the expired path the request is the point delete of destroy(sid),
\* which is called without a callback.
Set(c, i, sid, s) ==
    /\ CanCall(c, i)
    /\ LET ttl == GetTTL(options, s, now)
       IN  ops' = [ops EXCEPT ![c] =
                      StartOp(c, "set", i, sid, s, ttl, FALSE, SetBranch(ttl), Undefined)]
    /\ UNCHANGED <<LifeVars, containers, now>>

SetResponse(c) ==
    /\ ops[c].op = "set" /\ ops[c].pc = "await"
    /\ \E ok \in BOOLEAN :
         LET o == ops[c]
             n == container[o.inst]
             its == ItemsOf(o.inst)
             item == SessionItem(o.sid, o.sess)
             req == o.reqs[1]
         IN  IF req = "delete"
             THEN IF ok /\ Reachable(o.inst)
                  THEN /\ containers' = [containers EXCEPT ![n].items = Delete(its, o.sid)]
                       /\ ops' = [ops EXCEPT ![c] = Finish(o)]
                  ELSE /\ ops' = [ops EXCEPT ![c] = Finish(Failed(o))]
                       /\ UNCHANGED containers
             ELSE IF req = "upsert"
             THEN IF ok /\ Reachable(o.inst)
                  THEN /\ containers' = [containers EXCEPT ![n].items =
                                            Upsert(its, WithTTL(item, o.ttl), now)]
                       /\ ops' = [ops EXCEPT ![c] = Finish(o)]
                  ELSE /\ ops' = [ops EXCEPT ![c] =
                                     InvokeInCatch(Failed(o), CbError("backend"))]
                       /\ UNCHANGED containers
             ELSE IF ok /\ Reachable(o.inst) /\ PointRead(its, item.id) = {}
                  THEN /\ containers' = [containers EXCEPT ![n].items =
                                            Upsert(its, item, now)]
                       /\ ops' = [ops EXCEPT ![c] = Finish(o)]
                  ELSE /\ ops' = [ops EXCEPT ![c] =
                                     InvokeInCatch(Failed(o), CbError("backend"))]
                       /\ UNCHANGED containers
    /\ UNCHANGED <<LifeVars, now>>

\* destroy(sid, callback)
Destroy(c, i, sid) ==
    /\ CanCall(c, i)
    /\ ops' = [ops EXCEPT ![c] =
                  StartOp(c, "destroy", i, sid, IdleOp.sess, 0, FALSE, "delete", Undefined)]
    /\ UNCHANGED <<LifeVars, containers, now>>

\* The point delete answers: the item is deleted, or the request fails, or,
\* for an id that is not stored, the client either does nothing or rejects
\* with its not-found error.  Whatever the await throws reaches the callback.
DestroyResponse(c) ==
    /\ ops[c].op = "destroy" /\ ops[c].pc = "await"
    /\ \E r \in DeleteOutcomes(ItemsOf(ops[c].inst), ops[c].sid) :
         LET o == ops[c]
             n == container[o.inst]
         IN  IF r = "ok" /\ Reachable(o.inst)
             THEN /\ containers' = [containers EXCEPT ![n].items =
                                       Delete(ItemsOf(o.inst), o.sid)]
                  /\ ops' = [ops EXCEPT ![c] = Finish(o)]
             ELSE /\ ops' = [ops EXCEPT ![c] =
                                IF r = "notFound" /\ Reachable(o.inst)
                                THEN InvokeInCatch(Refused(o), CbError("notFound"))
                                ELSE InvokeInCatch(Failed(o), CbError("backend"))]
                  /\ UNCHANGED containers
    /\ UNCHANGED <<LifeVars, now>>

\* all(callback)
All(c, i, thr) ==
    /\ CanCall(c, i)
    /\ ops' = [ops EXCEPT ![c] =
                  StartOp(c, "all", i, "a", IdleOp.sess, 0, thr, "readAll", Undefined)]
    /\ UNCHANGED <<LifeVars, containers, now>>

AllResponse(c) ==
    /\ ops[c].op = "all" /\ ops[c].pc = "await"
    /\ \E ok \in BOOLEAN :
         LET o == ops[c] IN
         IF ok /\ Reachable(o.inst)
         THEN ops' = [ops EXCEPT ![c] = InvokeInTry(o, CbDocs(ItemsOf(o.inst)))]
         ELSE ops' = [ops EXCEPT ![c] = InvokeInCatch(Failed(o), CbError("backend"))]
    /\ UNCHANGED <<LifeVars, containers, now>>

\* length(callback): SELECT VALUE COUNT(s.id) FROM <container> s
Length(c, i, thr) ==
    /\ CanCall(c, i)
    /\ ops' = [ops EXCEPT ![c] =
                  StartOp(c, "length", i, "a", IdleOp.sess, 0, thr, "count", Undefined)]
    /\ UNCHANGED <<LifeVars, containers, now>>

LengthResponse(c) ==
    /\ ops[c].op = "length" /\ ops[c].pc = "await"
    /\ \E ok \in BOOLEAN :
         LET o == ops[c] IN
         IF ok /\ Reachable(o.inst)
         THEN ops' = [ops EXCEPT ![c] =
                         InvokeInTry(o, CbCount(Cardinality(ItemsOf(o.inst))))]
         ELSE ops' = [ops EXCEPT ![c] = InvokeInCatch(Failed(o), CbError("backend"))]
    /\ UNCHANGED <<LifeVars, containers, now>>

\* clear(callback): delete the container the configuration names, ...
Clear(c, i) ==
    /\ CanCall(c, i)
    /\ ops' = [ops EXCEPT ![c] =
                  StartOp(c, "clear", i, "a", IdleOp.sess, 0, FALSE, "deleteContainer",
                          options.containerName)]
    /\ UNCHANGED <<LifeVars, containers, now>>

\* ... then createContainer(), which issues ensure-container for the name the
\* configuration holds when the delete has answered.
ClearDeleteResponse(c) ==
    /\ ops[c].op = "clear" /\ ops[c].pc = "await"
    /\ \E ok \in BOOLEAN :
         LET o == ops[c] IN
         IF ok /\ dbExists /\ o.name \in ContainerNames /\ containers[o.name].exists
         THEN /\ containers' = [containers EXCEPT ![o.name] =
                                   [exists |-> FALSE, items |-> {}]]
              /\ ops' = [ops EXCEPT ![c] =
                            [o EXCEPT !.pc = "awaitCreate",
                                      !.reqs = Append(o.reqs, "ensureContainer"),
                                      !.name = options.containerName]]
         ELSE /\ ops' = [ops EXCEPT ![c] =
                            InvokeInCatch(Failed(o), CbError("backend"))]
              /\ UNCHANGED containers
    /\ UNCHANGED <<LifeVars, now>>

ClearCreateResponse(c) ==
    /\ ops[c].op = "clear" /\ ops[c].pc = "awaitCreate"
    /\ \E ok \in BOOLEAN :
         LET o == ops[c] IN
         IF ok /\ dbExists /\ o.name \in ContainerNames
         THEN /\ containers' = EnsureContainer(containers, o.name)
              /\ ops' = [ops EXCEPT ![c] = Finish(o)]
         ELSE /\ ops' = [ops EXCEPT ![c] =
                            InvokeInCatch(Failed(o), CbError("backend"))]
              /\ UNCHANGED containers
    /\ UNCHANGED <<LifeVars, now>>

\* A touch that never takes the early return.
TouchDisabledNever(opts) == FALSE

\* touch: if (CosmosStore.options.disableTouch)
TouchDisabled(opts) == Truthy(opts.disableTouch)

\* A catch block that hands the error to the callback.
TouchCatchReports(e) == CbError(e)

\* touch, catch block: callback() whatever the error e is.
TouchCatch(e) == CbNoArgs

\* touch(sid, session, callback): with touch disabled the callback is invoked
\* at once, outside any try block; else the TTL is resolved and a patch that
\* replaces /ttl is issued.
Touch(c, i, sid, s, thr) ==
    /\ CanCall(c, i)
    /\ IF TouchDisabled(options)
       THEN ops' = [ops EXCEPT ![c] =
                       [IdleOp EXCEPT !.op = "touch", !.pc = "done", !.inst = i,
                                      !.sid = sid, !.sess = s, !.throws = thr,
                                      !.cbs = <<CbNoArgs>>, !.at = now,
                                      !.prev = Previous(ops[c]),
                                      !.promise = IF thr THEN "rejected"
                                                  ELSE "resolved"]]
       ELSE ops' = [ops EXCEPT ![c] =
                       StartOp(c, "touch", i, sid, s, GetTTL(options, s, now), thr,
                               "patch", Undefined)]
    /\ UNCHANGED <<LifeVars, containers, now>>

\* The patch replaces the ttl field of an item that has one.
TouchResponse(c) ==
    /\ ops[c].op = "touch" /\ ops[c].pc = "await"
    /\ \E ok \in BOOLEAN :
         LET o == ops[c]
             n == container[o.inst]
             its == ItemsOf(o.inst)
         IN  IF /\ ok /\ Reachable(o.inst) /\ ValidTTL(o.ttl)
                /\ \E d \in PointRead(its, o.sid) : d.ttl # {}
             THEN /\ containers' = [containers EXCEPT ![n].items =
                                       Patch(its, o.sid, o.ttl, now)]
                  /\ ops' = [ops EXCEPT ![c] =
                                IF o.throws
                                THEN [o EXCEPT !.pc = "done", !.at = now,
                                               !.cbs = o.cbs \o
                                                   <<CbNoArgs, TouchCatch("thrown")>>,
                                               !.promise = "rejected"]
                                ELSE InvokeInTry(o, CbNoArgs)]
             ELSE /\ ops' = [ops EXCEPT ![c] =
                                IF ok /\ Reachable(o.inst)
                                THEN InvokeInCatch(Refused(o), TouchCatch("refused"))
                                ELSE InvokeInCatch(Failed(o), TouchCatch("backend"))]
                  /\ UNCHANGED containers
    /\ UNCHANGED <<LifeVars, now>>

\* Half a second passes, and the backing store removes the items whose
\* lifetime has run out.
Tick ==
    /\ now < MaxClock * 500
    /\ now' = now + 500
    /\ containers' = [n \in ContainerNames |->
                         [containers[n] EXCEPT !.items =
                             {d \in containers[n].items : Live(d, now + 500)}]]
    /\ UNCHANGED <<LifeVars, ops>>

-----------------------------------------------------------------------------
(* The operations of one caller on a store that initializeStore returned.   *)

OpCallers == {"c1"}

\* The options values of the stores the operations are run on.
OpsOptionsInputs ==
    { [cosmosClient |-> "client", databaseName |-> "db", containerName |-> cn,
       disableTouch |-> dt, ttl |-> t] :
         cn \in {Undefined}, dt \in {Undefined},
         t \in {TtlUndefined, Num(0), Num(-2), Fn(0), Fn(1)} }
    \cup
    { [cosmosClient |-> "client", databaseName |-> "db", containerName |-> "custom",
       disableTouch |-> "true", ttl |-> Num(1)] }

Times == {k * 500 : k \in 0..MaxTicks}

\* The state in which initializeStore(o) has returned the first instance,
\* provisioned in an empty database.
StoreReturned(o) ==
        /\ ValidationError(o) = ""
        /\ options = UpdateOptions(o)
        /\ store = AssignStore(0, 1)
        /\ nInst = 1
        /\ built = 1
        /\ database = [i \in Instances |-> IF i = 1 THEN "db" ELSE Undefined]
        /\ container = [i \in Instances |->
                           IF i = 1 THEN UpdateOptions(o).containerName ELSE Undefined]
        /\ dbExists = TRUE
        /\ containers = [NoContainers EXCEPT ![UpdateOptions(o).containerName].exists = TRUE]
        /\ calls = [c \in Callers |->
                       IF c = "c1"
                       THEN [IdleCall EXCEPT !.pc = "returned", !.inst = 1, !.ret = 1,
                                             !.cName = UpdateOptions(o).containerName,
                                             !.req = UpdateOptions(o).containerName,
                                             !.usable = TRUE]
                       ELSE IdleCall]
        /\ last = Event("initializeStore.return", "c1", o, "returned", {})
        /\ ops = [c \in Callers |-> IdleOp]

OpsInit == \E o \in OpsOptionsInputs : StoreReturned(o) /\ now \in Times

OpsNext ==
    \/ \E c \in OpCallers, i \in Instances, sid \in Ids, thr \in BOOLEAN :
          Get(c, i, sid, thr)
    \/ \E c \in OpCallers : GetResponse(c)
    \/ \E c \in OpCallers, i \in Instances, sid \in Ids, s \in Sessions :
          Set(c, i, sid, s)
    \/ \E c \in OpCallers : SetResponse(c)
    \/ \E c \in OpCallers, i \in Instances, sid \in Ids : Destroy(c, i, sid)
    \/ \E c \in OpCallers : DestroyResponse(c)
    \/ \E c \in OpCallers, i \in Instances, thr \in BOOLEAN : All(c, i, thr)
    \/ \E c \in OpCallers : AllResponse(c)
    \/ \E c \in OpCallers, i \in Instances, thr \in BOOLEAN : Length(c, i, thr)
    \/ \E c \in OpCallers : LengthResponse(c)
    \/ \E c \in OpCallers, i \in Instances : Clear(c, i)
    \/ \E c \in OpCallers : ClearDeleteResponse(c)
    \/ \E c \in OpCallers : ClearCreateResponse(c)
    \/ \E c \in OpCallers, i \in Instances, sid \in Ids, s \in Sessions, thr \in BOOLEAN :
          Touch(c, i, sid, s, thr)
    \/ \E c \in OpCallers : TouchResponse(c)

\* The session operations on a ready store.
SpecOps == OpsInit /\ [][OpsNext]_vars

-----------------------------------------------------------------------------
(* A record's life: one caller sets a record, another touches it once the   *)
(* set has completed, and time passes.                                      *)

Setter == "c1"
Toucher == "c2"

\* A fixed TTL of one second, with touch enabled and with touch disabled.
TimeOptionsInputs ==
    { [cosmosClient |-> "client", databaseName |-> "db", containerName |-> Undefined,
       disableTouch |-> dt, ttl |-> Num(1)] : dt \in {Undefined, "true"} }

TimeInit == \E o \in TimeOptionsInputs : StoreReturned(o) /\ now = 0

TimeNext ==
    \/ \E i \in Instances, sid \in Ids, s \in Sessions :
          ops[Setter].pc = "idle" /\ Set(Setter, i, sid, s)
    \/ SetResponse(Setter)
    \/ \E i \in Instances, sid \in Ids, s \in Sessions :
          /\ ops[Setter].pc = "done" /\ ops[Toucher].pc = "idle"
          /\ Touch(Toucher, i, sid, s, FALSE)
    \/ TouchResponse(Toucher)
    \/ Tick

\* The life of one record in time.
SpecTime == TimeInit /\ [][TimeNext]_vars

-----------------------------------------------------------------------------
(* A set and the reads concurrent with it: one caller sets a record once,   *)
(* and from the call of the set on another caller reads.                    *)

Reader == "c2"

RaceNext ==
    \/ \E i \in Instances, sid \in Ids, s \in Sessions :
          ops[Setter].pc = "idle" /\ Set(Setter, i, sid, s)
    \/ SetResponse(Setter)
    \/ \E i \in Instances, sid \in Ids :
          ops[Setter].pc # "idle" /\ Get(Reader, i, sid, FALSE)
    \/ GetResponse(Reader)

\* One set and the reads that run while it is in flight and after it.
SpecRace == OpsInit /\ [][RaceNext]_vars

-----------------------------------------------------------------------------
LifeInit ==
    /\ store = 0
    /\ options = EmptyOptions
    /\ nInst = 0
    /\ built = 0
    /\ database = [i \in Instances |-> Undefined]
    /\ container = [i \in Instances |-> Undefined]
    /\ containers \in InitialContainers
    /\ dbExists = (\E n \in ContainerNames : containers[n].exists)
    /\ calls = [c \in Callers |-> IdleCall]
    /\ last = NoCall
    /\ now = 0
    /\ ops = [c \in Callers |-> IdleOp]

LifeNext ==
    \/ \E c \in Callers, o \in OptionsInputs : InitializeStore(c, o)
    \/ \E c \in Callers : DatabaseResponse(c)
    \/ \E c \in Callers : ContainerResponse(c)
    \/ \E c \in Callers : InitReturn(c)
    \/ Reset
    \/ Construct

\* The singleton's life: the static calls of any number of callers.
SpecLife == LifeInit /\ [][LifeNext]_vars


-----------------------------------------------------------------------------
(* The singleton's life cycle, read off the singleton reference and the     *)
(* handles of the instance it refers to.                                    *)

Lifecycle ==
    IF store = 0 THEN "Uninitialized"
    ELSE IF Usable(store) THEN "Ready"
    ELSE "Provisioning"

LifecycleMoves ==
    { <<"Uninitialized", "Uninitialized">>, <<"Uninitialized", "Provisioning">>,
      <<"Provisioning", "Provisioning">>, <<"Provisioning", "Ready">>,
      <<"Ready", "Ready">>,
      <<"Provisioning", "Uninitialized">>, <<"Ready", "Uninitialized">> }

\* The options lack the client or the database name.
LacksRequired(o) == ~Truthy(o.cosmosClient) \/ ~Truthy(o.databaseName)

\* The step is a call of initializeStore with options that have both.
ValidInitCall == last'.op = "initializeStore" /\ ~LacksRequired(last'.opts)

BackingStoreUnchanged == UNCHANGED <<dbExists, containers>>

-----------------------------------------------------------------------------
(* C1. While a singleton exists (one initializeStore call has got as far    *)
(* as constructing it and no reset() has been called since), every          *)
(* initializeStore call with options that have a client and a database      *)
(* name, equal to the captured ones or not, returns that singleton at once, *)
(* issues no backing-store request, and leaves the singleton reference and  *)
(* the configuration as they were.                                          *)
C1_SingletonIdempotence ==
    [][ (store # 0 /\ ValidInitCall) =>
          /\ last'.outcome = "existing"
          /\ last'.issued = {}
          /\ calls'[last'.caller].pc = "returned"
          /\ calls'[last'.caller].ret = store
          /\ store' = store
          /\ options' = options
          /\ nInst' = nInst
          /\ BackingStoreUnchanged ]_vars

\* A ready store has answered a call whose options differ from the captured ones.
C1_Witness ==
    /\ last.op = "initializeStore" /\ last.outcome = "existing"
    /\ Usable(store)
    /\ calls[last.caller].ret = store
    /\ UpdateOptions(last.opts) # options

(* C2. Between two resets at most one instance is constructed, and every    *)
(* initializeStore call that has returned with no reset() since it began    *)
(* has returned that one instance, the singleton.                           *)
C2_AtMostOneInstance ==
    /\ built <= 1
    /\ \A c \in Callers :
          (calls[c].pc = "returned" /\ ~calls[c].stale) =>
              (calls[c].ret # 0 /\ calls[c].ret = store)

\* Two concurrent first-time calls: c1 constructed and provisioned the
\* instance, c2 was answered while c1 was still provisioning.
C2_Witness ==
    /\ calls["c1"].pc = "returned" /\ ~calls["c1"].stale /\ calls["c1"].inst # 0
    /\ calls["c2"].pc = "returned" /\ ~calls["c2"].stale /\ ~calls["c2"].usable
    /\ calls["c1"].ret = calls["c2"].ret
    /\ built = 1

(* C3, as claimed: every instance that an initializeStore call returns has  *)
(* its database and container handles set at the moment it is returned.     *)
(* The code returns the singleton to a second caller while the first        *)
(* caller's setup() is still running, and after a setup() that failed.      *)
C3_ReturnedInstanceUsable ==
    \A c \in Callers :
        (calls[c].pc = "returned" /\ calls[c].ret # 0) => calls[c].usable

(* C4. Direct construction always fails, when no configuration is captured  *)
(* and while a singleton exists, and it leaves the singleton reference and  *)
(* the configuration unchanged.                                             *)
C4_ConstructionGuard ==
    [][ last'.op = "construct" =>
          /\ last'.outcome # "constructed"
          /\ ConstructorError(store, options) # ""
          /\ store' = store
          /\ options' = options
          /\ nInst' = nInst ]_vars

\* A construction attempted after a store was initialized and reset again.
C4_Witness ==
    /\ last.op = "construct"
    /\ store = 0
    /\ \E i \in Instances : Usable(i)

(* C5. initializeStore with options that lack the client or the database    *)
(* name rejects with the validation error in every lifecycle state, issues  *)
(* no backing-store request, and leaves the singleton reference, the        *)
(* configuration and the backing store unchanged.                           *)
C5_ValidationFails ==
    [][ (last'.op = "initializeStore" /\ LacksRequired(last'.opts)) =>
          /\ last'.outcome = "validationError"
          /\ last'.issued = {}
          /\ calls'[last'.caller].pc = "rejected"
          /\ calls'[last'.caller].error \in
                {"Cosmos DB Client is required.", "Database name is required"}
          /\ store' = store
          /\ options' = options
          /\ nInst' = nInst
          /\ UNCHANGED <<database, container>>
          /\ BackingStoreUnchanged ]_vars

\* A ready store has rejected options without a database name.
C5_Witness ==
    /\ last.op = "initializeStore" /\ last.outcome = "validationError"
    /\ Truthy(last.opts.cosmosClient) /\ ~Truthy(last.opts.databaseName)
    /\ Lifecycle = "Ready"

(* C6. The store moves only Uninitialized -> Provisioning -> Ready and, by  *)
(* reset(), back to Uninitialized.  reset() clears the singleton reference  *)
(* and the configuration, issues no backing-store request and changes no    *)
(* stored record.  No step taken from Ready issues ensure-database.  An     *)
(* initializeStore that starts provisioning captures its own options.       *)
C6_Lifecycle ==
    [][ /\ <<Lifecycle, Lifecycle'>> \in LifecycleMoves
        /\ last'.op = "reset" =>
              /\ store' = 0
              /\ options' = EmptyOptions
              /\ Lifecycle' = "Uninitialized"
              /\ last'.issued = {}
              /\ BackingStoreUnchanged
        /\ Lifecycle = "Ready" => "ensureDatabase" \notin last'.issued
        /\ "ensureDatabase" \in last'.issued =>
              /\ Lifecycle = "Uninitialized"
              /\ Lifecycle' = "Provisioning"
              /\ options' = UpdateOptions(last'.opts) ]_vars

\* A second store, initialized after the reset of a ready one with other
\* options, is ready, and the backing store still holds the old record.
C6_Witness ==
    /\ store = 2 /\ Usable(2) /\ Usable(1)
    /\ container[1] # container[2]
    /\ \E n \in ContainerNames : OldItem \in containers[n].items

-----------------------------------------------------------------------------
(* The session operations.  In SpecOps last is the initializeStore call     *)
(* that returned the store, with the options it was given.                  *)

\* The least integer k with k seconds >= ms milliseconds.
CeilingSeconds(ms) ==
    CHOOSE k \in -(MaxTicks + 1)..(MaxTicks + 1) :
        k * MsPerSecond >= ms /\ (k - 1) * MsPerSecond < ms

\* The TTL that the three tiers prescribe for the session of operation o.
PrescribedTTL(o) ==
    IF options.ttl.kind = "function" THEN options.ttl.val
    ELSE IF o.sess.expires # {}
    THEN CeilingSeconds((CHOOSE e \in o.sess.expires : TRUE) - now)
    ELSE IF last.opts.ttl.kind = "undefined" THEN 86400
    ELSE options.ttl.val

\* Operation o resolved a TTL: a set, or a touch that issued its patch.
ResolvesTTL(o) == o.op = "set" \/ (o.op = "touch" /\ o.reqs # <<>>)

(* C7. The TTL resolved for a record is the policy function's value when    *)
(* the policy is a function, also when the record carries cookie.expires;   *)
(* else the ceiling of (expires - now) / 1000 when cookie.expires is        *)
(* present; else the configured fixed number, 86400 when no ttl option was  *)
(* supplied.                                                                *)
C7_TTLPrecedence ==
    \A c \in Callers : ResolvesTTL(ops[c]) => ops[c].ttl = PrescribedTTL(ops[c])

\* A set under a function policy of a record that carries cookie.expires,
\* whose two tiers disagree.
C7_Witness ==
    \E c \in Callers :
        /\ ops[c].op = "set" /\ ops[c].pc = "done"
        /\ options.ttl.kind = "function"
        /\ \E e \in ops[c].sess.expires : CeilingSeconds(e - now) # ops[c].ttl

(* C8, as claimed: a set whose resolved TTL is <= 0, zero included, issues  *)
(* the point delete of its id and no upsert and no create, and once it has  *)
(* completed without a failed request no record with that id is stored.     *)
(* The code tests the TTL for truthiness first, so a TTL of 0 takes the     *)
(* create-only write.                                                       *)
C8_ExpiredSetOnlyDeletes ==
    \A c \in Callers :
        LET o == ops[c] IN
        (o.op = "set" /\ o.ttl <= 0) =>
            /\ o.reqs = <<"delete">>
            /\ (o.pc = "done" /\ o.failed = <<>>) =>
                   PointRead(ItemsOf(o.inst), o.sid) = {}

\* Item r has every field of session s with the session's value.
CarriesFieldsOf(r, s) ==
    /\ r.data = s.data
    /\ r.expires = s.expires
    /\ s.id \subseteq {r.id}
    /\ s.ttl # {} => r.ttl = s.ttl

(* C9, as claimed: a get(id) that directly follows the caller's successful  *)
(* set(id, record) with a positive TTL delivers (null, r) with r equal to   *)
(* record on every field of record, and a get(id) that directly follows a   *)
(* successful destroy(id) delivers (null, null).  The code lets a record's  *)
(* own id field replace the session id as the key of the stored item.       *)
C9_RoundTrip ==
    \A c \in Callers :
        LET o == ops[c] IN
        (/\ o.op = "get" /\ o.pc = "done" /\ o.failed = <<>> /\ ~o.throws
         /\ o.prev.sid = o.sid) =>
            /\ (o.prev.op = "set" /\ o.prev.req = "upsert") =>
                   \E r \in ItemsOf(o.inst) :
                       o.cbs = <<CbDocs({r})>> /\ CarriesFieldsOf(r, o.prev.sess)
            /\ o.prev.op = "destroy" => o.cbs = <<CbDocs({})>>

(* C10, as claimed: when a backing-store request made for a get, set,       *)
(* destroy, all, length or clear fails, the callback given to the           *)
(* operation is invoked with the error and the returned promise does not    *)
(* reject.  On its expired path set calls destroy(sid) without a callback,  *)
(* so the failure of the point delete reaches no callback.                  *)
C10_FailuresReachCallback ==
    \A c \in Callers :
        LET o == ops[c] IN
        (/\ o.pc = "done" /\ o.failed # <<>> /\ ~o.throws
         /\ o.op \in {"get", "set", "destroy", "all", "length", "clear"}) =>
            /\ \E k \in DOMAIN o.cbs : o.cbs[k].err \in {"backend", "notFound"}
            /\ o.promise = "resolved"

-----------------------------------------------------------------------------
(* The callbacks and the effects of the session operations.                 *)

\* Callback invocation cb carries an error.
IsError(cb) == cb.err \notin {"none", "null"}

(* C11, as claimed: every call of set, destroy and clear that is given a    *)
(* callback has, once it has completed, invoked that callback exactly once, *)
(* with no error when its backing-store requests succeeded and with the     *)
(* error when one failed.  The code invokes the callback of these three     *)
(* operations in their catch blocks only.                                   *)
C11_CallbackOnCompletion ==
    \A c \in Callers :
        LET o == ops[c] IN
        (o.pc = "done" /\ o.op \in {"set", "destroy", "clear"}) =>
            /\ Len(o.cbs) = 1
            /\ IsError(o.cbs[1]) <=> o.failed # <<>>

\* The records stored under id in the container of instance i.
StoredUnder(i, id) == {d \in containers[container[i]].items : d.id = id}

(* C12. A get(id) changes no stored record and delivers first (error) when  *)
(* its point read failed, else (null, record) with the record stored under  *)
(* id when there is one, else (null, null); a callback that returns         *)
(* normally is invoked that once only.                                      *)
C12_GetOutcomes ==
    [][ \A c \in Callers :
          (ops'[c].op = "get" /\ ops'[c] # ops[c]) =>
              /\ containers' = containers
              /\ ops'[c].pc = "done" =>
                    LET o == ops'[c]
                        stored == StoredUnder(o.inst, o.sid)
                    IN  /\ o.cbs # <<>>
                        /\ o.cbs[1] = IF o.failed # <<>> THEN CbError("backend")
                                      ELSE IF stored = {} THEN CbDocs({})
                                      ELSE CbDocs({CHOOSE r \in stored : TRUE})
                        /\ Cardinality(stored) <= 1
                        /\ ~o.throws => Len(o.cbs) = 1 ]_vars

\* A get has delivered a stored record to a callback that returned.
C12_Witness ==
    \E c \in Callers :
        /\ ops[c].op = "get" /\ ops[c].pc = "done" /\ ~ops[c].throws
        /\ \E r \in StoredUnder(ops[c].inst, ops[c].sid) :
               ops[c].cbs = <<CbDocs({r})>>

(* C13. A touch that has completed, with touch disabled or enabled, its     *)
(* patch applied or failed or aimed at an id that is not stored, has        *)
(* invoked the callback with no arguments and never with an error, and for  *)
(* a callback that returns normally it did so once and the returned promise *)
(* is fulfilled.                                                            *)
C13_TouchNeverReports ==
    \A c \in Callers :
        LET o == ops[c] IN
        (o.op = "touch" /\ o.pc = "done") =>
            /\ o.cbs # <<>>
            /\ \A k \in DOMAIN o.cbs : o.cbs[k] = CbNoArgs
            /\ ~o.throws => (Len(o.cbs) = 1 /\ o.promise = "resolved")

\* A touch of an id that is not stored, whose patch failed.
C13_Witness ==
    \E c \in Callers :
        /\ ops[c].op = "touch" /\ ops[c].pc = "done" /\ ~ops[c].throws
        /\ ops[c].failed = <<"patch">>
        /\ StoredUnder(ops[c].inst, ops[c].sid) = {}

\* The records stored under id in the container of instance i after the step.
StoredUnderNext(i, id) == {d \in containers'[container[i]].items : d.id = id}

(* C14. With touch enabled, the answer to the patch of touch(id, record)    *)
(* leaves the containers and the records under every other id as they were, *)
(* creates no record under an id that is not stored, and, when the patch    *)
(* did not fail, leaves under id the stored record with its ttl set to the  *)
(* TTL resolved from the passed record and its other fields unchanged; a    *)
(* failed patch changes nothing.                                            *)
C14_TouchChangesOnlyTTL ==
    [][ \A c \in Callers :
          (ops[c].op = "touch" /\ ops[c].pc = "await" /\ ops'[c].pc = "done") =>
              LET o == ops'[c] IN
              /\ \A n \in ContainerNames :
                    /\ containers'[n].exists = containers[n].exists
                    /\ n # container[o.inst] => containers'[n] = containers[n]
              /\ \A id \in Ids \ {o.sid} :
                    StoredUnderNext(o.inst, id) = StoredUnder(o.inst, id)
              /\ StoredUnder(o.inst, o.sid) = {} => StoredUnderNext(o.inst, o.sid) = {}
              /\ o.failed # <<>> => containers' = containers
              /\ \A d \in StoredUnder(o.inst, o.sid) :
                    o.failed = <<>> =>
                        \E e \in StoredUnderNext(o.inst, o.sid) :
                            /\ StoredUnderNext(o.inst, o.sid) = {e}
                            /\ e.ttl = {PrescribedTTL(o)}
                            /\ e.data = d.data /\ e.expires = d.expires
                            /\ e.ts = now ]_vars

\* A touch has set the ttl of the record that the caller's set had stored,
\* passing a record with other data, while the other id holds a record too.
C14_Witness ==
    \E c \in Callers :
        LET o == ops[c] IN
        /\ o.op = "touch" /\ o.pc = "done" /\ o.failed = <<>> /\ o.reqs = <<"patch">>
        /\ o.prev.op = "set" /\ o.prev.sid = o.sid /\ o.prev.sess.data # o.sess.data
        /\ \E d \in StoredUnder(o.inst, o.sid) :
               d.ttl = {o.ttl} /\ d.data = o.prev.sess.data
        /\ \E id \in Ids \ {o.sid} :
               \E d \in StoredUnder(o.inst, id) : d.ttl # {o.ttl}

(* C15. On a store initialized with disableTouch = true, a call of touch    *)
(* is complete in its one step: it issues no backing-store request, has     *)
(* invoked the callback once with no arguments, and leaves the containers   *)
(* and every stored record, ttl and time of last write included, unchanged. *)
C15_DisabledTouchDoesNothing ==
    [][ \A c \in Callers :
          (/\ last.opts.disableTouch = "true"
           /\ ops'[c].op = "touch" /\ ops'[c] # ops[c]) =>
              /\ ops[c].pc \in {"idle", "done"}
              /\ ops'[c].pc = "done"
              /\ ops'[c].reqs = <<>> /\ ops'[c].failed = <<>>
              /\ ops'[c].cbs = <<CbNoArgs>>
              /\ containers' = containers ]_vars

\* With touch disabled, a touch of a stored record has completed.
C15_Witness ==
    \E c \in Callers :
        /\ last.opts.disableTouch = "true"
        /\ ops[c].op = "touch" /\ ops[c].pc = "done" /\ ops[c].cbs = <<CbNoArgs>>
        /\ ops[c].reqs = <<>>
        /\ \E d \in StoredUnder(ops[c].inst, ops[c].sid) : d.ttl # {}

-----------------------------------------------------------------------------
(* A record's life in time, with a backing store that removes an item once  *)
(* its ttl seconds have passed since its last write.                        *)

\* A request of operation o failed on its way to the backing store.
RequestFailed(o) == \E k \in DOMAIN o.failed : o.failed[k] # "refused"

(* C16, as claimed: a record that set(id, record) has stored with a         *)
(* positive resolved TTL t and that is not written again is absent once t   *)
(* seconds have passed; with touch enabled, a touch(id, ...) that completes *)
(* at a time d before that, and resolves a positive TTL, restarts the       *)
(* lifetime, so that the record is present until that TTL has passed since  *)
(* d and absent from then on; with disableTouch = true the touch does not   *)
(* extend the lifetime.  Requests that fail on their way to the store are   *)
(* left aside.  The code stores a record that carries an id field of its    *)
(* own under that id, where touch(id, ...) does not find it.                *)
C16_ExpiryTimeline ==
    LET s == ops[Setter]
        u == ops[Toucher]
        touches == last.opts.disableTouch # "true" /\ u.op = "touch"
        setEnd == s.at + s.ttl * MsPerSecond
        extended == touches /\ u.pc = "done" /\ u.sid = s.sid /\ u.at < setEnd
        present == StoredUnder(s.inst, s.sid) # {}
    IN  (/\ s.op = "set" /\ s.pc = "done" /\ s.failed = <<>> /\ s.ttl > 0
         /\ touches => (u.ttl > 0 /\ ~RequestFailed(u))) =>
            IF extended
            THEN present <=> now < u.at + u.ttl * MsPerSecond
            ELSE now >= setEnd => ~present

-----------------------------------------------------------------------------
(* Counting, clearing, deleting and writing.                                *)

\* The items of the container of instance i before and after the step.
ItemsBefore(i) == containers[container[i]].items
ItemsAfter(i) == containers'[container[i]].items

\* The step completes the operation of caller c without a failed request.
Completes(c) ==
    ops[c].pc \in {"await", "awaitCreate"} /\ ops'[c].pc = "done" /\ ops'[c].failed = <<>>

(* C17, as claimed: with no other operation in flight, a length() that      *)
(* completes delivers (null, n) and an all() that completes delivers        *)
(* (null, list), n and the length of the list being the number of records   *)
(* stored; and when a set with a positive TTL has left one record in the    *)
(* container, as a first set into an empty container does, the caller's     *)
(* next set of another id with a positive TTL leaves two.  The code stores  *)
(* a record that carries an id field of its own under that id, so two sets  *)
(* of two ids can write the same item.                                      *)
C17_CountListConsistency ==
    [][ \A c \in Callers :
          LET o == ops'[c] IN
          /\ (Completes(c) /\ o.op = "length") =>
                 (Len(o.cbs) >= 1 /\ o.cbs[1] = CbCount(Cardinality(ItemsBefore(o.inst))))
          /\ (Completes(c) /\ o.op = "all") =>
                 (Len(o.cbs) >= 1 /\ o.cbs[1] = CbDocs(ItemsBefore(o.inst)))
          /\ (/\ Completes(c) /\ o.op = "set" /\ o.ttl > 0
              /\ o.prev.op = "set" /\ o.prev.req = "upsert" /\ o.prev.sid # o.sid
              /\ Cardinality(ItemsBefore(o.inst)) = 1) =>
                 Cardinality(ItemsAfter(o.inst)) = 2 ]_vars

(* C18, as claimed: when a clear() has completed without error the          *)
(* container exists and holds no record; the caller's next length()         *)
(* delivers 0 and its next all() the empty list; and its next set with a    *)
(* positive TTL stores the record under the session id, where a get on the  *)
(* same instance reads it.  The code stores a record that carries an id     *)
(* field of its own under that id.                                          *)
C18_ClearLeavesUsableStore ==
    \A c \in Callers :
        LET o == ops[c]
            ok == o.pc = "done" /\ o.failed = <<>>
        IN  /\ (ok /\ o.op = "clear") =>
                   /\ dbExists /\ containers[container[o.inst]].exists
                   /\ containers[container[o.inst]].items = {}
            /\ (ok /\ o.prev.op = "clear" /\ o.op = "length") =>
                   (Len(o.cbs) >= 1 /\ o.cbs[1] = CbCount(0))
            /\ (ok /\ o.prev.op = "clear" /\ o.op = "all") =>
                   (Len(o.cbs) >= 1 /\ o.cbs[1] = CbDocs({}))
            /\ (ok /\ o.prev.op = "clear" /\ o.op = "set" /\ o.ttl > 0) =>
                   \E r \in StoredUnder(o.inst, o.sid) :
                       r.data = o.sess.data /\ r.expires = o.sess.expires

(* C19, as claimed: a destroy(id) of an id that is not stored, the second   *)
(* of two destroy(id) for one, whose request reached the backing store,     *)
(* leaves the containers unchanged and delivers no error to the callback.   *)
(* The code hands whatever the point delete throws to the callback, the     *)
(* client's not-found error included.                                       *)
C19_DestroyIdempotent ==
    [][ \A c \in Callers :
          (/\ ops[c].op = "destroy" /\ ops[c].pc = "await" /\ ops'[c].pc = "done"
           /\ StoredUnder(ops[c].inst, ops[c].sid) = {}
           /\ ~RequestFailed(ops'[c])) =>
              /\ containers' = containers
              /\ \A k \in DOMAIN ops'[c].cbs : ~IsError(ops'[c].cbs[k]) ]_vars

(* C20, as claimed: when a set(sid, record) with a positive resolved TTL    *)
(* has completed without a failed request, the container holds exactly one  *)
(* record under sid, whose id is sid, whose ttl is the resolved TTL and     *)
(* whose other fields are those of record, whatever was stored under sid    *)
(* before and also when record carries an id or a ttl field of its own; the *)
(* records under every other id are as they were.  The code spreads the     *)
(* record over { id: sid }, so that an id field of the record replaces sid. *)
C20_SetWritesOneRecord ==
    [][ \A c \in Callers :
          LET o == ops'[c] IN
          (Completes(c) /\ o.op = "set" /\ o.ttl > 0) =>
              /\ \E r \in StoredUnderNext(o.inst, o.sid) :
                    /\ StoredUnderNext(o.inst, o.sid) = {r}
                    /\ r.id = o.sid
                    /\ r.ttl = {PrescribedTTL(o)}
                    /\ r.data = o.sess.data /\ r.expires = o.sess.expires
              /\ \A id \in Ids \ {o.sid} :
                    StoredUnderNext(o.inst, id) = StoredUnder(o.inst, id) ]_vars

-----------------------------------------------------------------------------
(* The write paths of set, failed provisioning, and callbacks that raise.   *)

(* C21, as claimed: on a store obtained from initializeStore, whatever the  *)
(* options and the record, no set takes the create-only write, and every    *)
(* record that a set writes carries a ttl field with a positive value.  The *)
(* code tests the resolved TTL for truthiness, so a TTL of 0 (a policy      *)
(* function that returns 0, a cookie that expired within the last second)   *)
(* takes the create-only write, which stores the record without a ttl.      *)
C21_CreateOnlyUnreachable ==
    [][ \A c \in Callers :
          LET o == ops'[c] IN
          (o.op = "set" /\ ops'[c] # ops[c]) =>
              /\ o.reqs # <<"create">>
              /\ \A d \in ItemsAfter(o.inst) \ ItemsBefore(o.inst) :
                    d.ttl # {} /\ \A x \in d.ttl : x > 0 ]_vars

(* C22, as claimed: a set whose resolved TTL is <= 0 is a write followed by *)
(* the point delete, two requests between which a concurrent get(id) can    *)
(* read the record just written.  The code issues one request only.         *)
C22_WriteThenDelete ==
    LET s == ops[Setter] IN
    (s.op = "set" /\ s.ttl <= 0 /\ s.pc = "done" /\ s.failed = <<>>) =>
        /\ Len(s.reqs) = 2
        /\ s.reqs[1] \in {"upsert", "create"}
        /\ s.reqs[2] = "delete"

(* C22, amended: every set issues one request.  A set whose resolved TTL is *)
(* negative issues the point delete and writes nothing: in a container that *)
(* was empty it stores no record, and every get(id) that is called while    *)
(* the set is in flight or after it, and whose read does not fail, delivers *)
(* (null, null).  A set whose resolved TTL is 0 issues the create-only      *)
(* write and no delete.                                                     *)
C22_ExpiredSetNeverWrites ==
    LET s == ops[Setter]
        g == ops[Reader]
    IN  s.op = "set" =>
            /\ Len(s.reqs) = 1
            /\ s.ttl = 0 => s.reqs = <<"create">>
            /\ s.ttl < 0 =>
                  /\ s.reqs = <<"delete">>
                  /\ containers[container[s.inst]].items = {}
                  /\ (g.op = "get" /\ g.pc = "done" /\ g.failed = <<>>) =>
                         g.cbs = <<CbDocs({})>>

\* A get(id) has run from call to callback while the expired set(id, ...)
\* was in flight.
C22_Witness ==
    /\ ops[Setter].op = "set" /\ ops[Setter].pc = "await" /\ ops[Setter].ttl < 0
    /\ ops[Reader].op = "get" /\ ops[Reader].pc = "done"
    /\ ops[Reader].sid = ops[Setter].sid
    /\ ops[Reader].cbs = <<CbDocs({})>>

(* C23, as claimed: when ensure-database or ensure-container fails during  *)
(* initializeStore, the call rejects and no singleton is retained: as long  *)
(* as no reset() has been called since the call began, the singleton        *)
(* reference is not the instance whose provisioning failed, and no          *)
(* initializeStore call has returned that instance.  The code assigns the   *)
(* singleton before it awaits setup() and does not clear it when setup()    *)
(* throws.                                                                  *)
C23_FailedProvisioningRetainsNothing ==
    \A c \in Callers :
        (calls[c].pc = "rejected" /\ calls[c].error = "backend" /\ ~calls[c].stale) =>
            /\ store # calls[c].inst
            /\ \A d \in Callers :
                  calls[d].pc = "returned" => calls[d].ret # calls[c].inst

(* C24, as claimed: a call of get, all, length or touch invokes its         *)
(* callback at most once, also when the callback raises an error on the     *)
(* success path.  The code invokes the callback inside the try block, so    *)
(* what the callback throws is caught and the catch block invokes it again. *)
C24_CallbackAtMostOnce ==
    \A c \in Callers :
        ops[c].op \in {"get", "all", "length", "touch"} => Len(ops[c].cbs) <= 1

=============================================================================
